---------------------------- MODULE Spec2Model ----------------------------
(***************************************************************************)
(* Model of webevo_report_generator.py (ReportGenerator, FileWatcher) and  *)
(* of the helpers of config.py.                                            *)
(*                                                                         *)
(* Python strings are sequences of one-character strings, JSON values are  *)
(* records [t |-> type, v |-> value], a JSON object is a function whose    *)
(* DOMAIN is the set of its keys.                                          *)
(***************************************************************************)
EXTENDS Integers, Sequences, FiniteSets, TLC

(***************************************************************************)
(* Strings                                                                 *)
(***************************************************************************)
Digits == <<"0", "1", "2", "3", "4", "5", "6", "7", "8", "9">>

IsDigit(c) == \E i \in 1..Len(Digits) : Digits[i] = c

DigitVal(c) == (CHOOSE i \in 1..Len(Digits) : Digits[i] = c) - 1

\* s[i..] starts with the string pat
StartsAt(s, i, pat) ==
    /\ i + Len(pat) - 1 <= Len(s)
    /\ \A k \in 1..Len(pat) : s[i + k - 1] = pat[k]

\* str.replace(old, new): every non-overlapping occurrence, left to right
RECURSIVE ReplaceFrom(_, _, _, _)
ReplaceFrom(s, i, old, new) ==
    IF i > Len(s) THEN <<>>
    ELSE IF StartsAt(s, i, old)
         THEN new \o ReplaceFrom(s, i + Len(old), old, new)
         ELSE <<s[i]>> \o ReplaceFrom(s, i + 1, old, new)

\* (the string s is evaluated once, before the scan)
Replace(s, old, new) == CHOOSE r \in {ReplaceFrom(x, 1, old, new) : x \in {s}} : TRUE

\* the decimal digits of n, at least w of them (strftime's zero padding)
RECURSIVE Pad(_, _)
Pad(n, w) ==
    IF w <= 1 /\ n < 10 THEN <<Digits[n + 1]>>
    ELSE Pad(n \div 10, w - 1) \o <<Digits[(n % 10) + 1]>>

\* the number written by a string of digits
RECURSIVE DigitsVal(_)
DigitsVal(s) ==
    IF s = <<>> THEN 0
    ELSE 10 * DigitsVal(SubSeq(s, 1, Len(s) - 1)) + DigitVal(s[Len(s)])

AllDigits(s) == s # <<>> /\ \A i \in 1..Len(s) : IsDigit(s[i])

(***************************************************************************)
(* JSON values                                                             *)
(***************************************************************************)
JStr(s) == [t |-> "str", v |-> s]
JInt(n) == [t |-> "int", v |-> n]
JNull == [t |-> "null", v |-> 0]

\* Python truthiness of a JSON value (if data['generatedAt']:)
Truthy(x) ==
    CASE x.t = "str" -> x.v # <<>>
      [] x.t = "int" -> x.v # 0
      [] OTHER -> FALSE

(***************************************************************************)
(* urllib.parse.urlparse(url).netloc, as generate_html and generate_report *)
(* use it: the scheme is split off at the first ':' when everything before *)
(* it is a scheme character, and the netloc is what follows a leading '//' *)
(* up to the first of '/', '?', '#'.                                       *)
(***************************************************************************)
Letters == {"a", "b", "c", "d", "e", "f", "g", "h", "i", "j", "k", "l", "m",
            "n", "o", "p", "q", "r", "s", "t", "u", "v", "w", "x", "y", "z",
            "J", "S", "O", "N", "T", "Z"}

IsSchemeChar(c) == c \in Letters \/ IsDigit(c) \/ c \in {"+", "-", "."}

\* the least index >= i of s holding a character of cs, Len(s) + 1 if none
RECURSIVE FindAny(_, _, _)
FindAny(s, i, cs) ==
    IF i > Len(s) THEN Len(s) + 1
    ELSE IF s[i] \in cs THEN i
    ELSE FindAny(s, i + 1, cs)

AfterScheme(url) ==
    LET i == FindAny(url, 1, {":"})
    IN  IF /\ i > 1
           /\ i <= Len(url)
           /\ url[1] \in Letters
           /\ \A k \in 1..(i - 1) : IsSchemeChar(url[k])
        THEN SubSeq(url, i + 1, Len(url))
        ELSE url

Netloc(url) ==
    LET rest == AfterScheme(url)
    IN  IF StartsAt(rest, 1, <<"/", "/">>)
        THEN SubSeq(rest, 3, FindAny(rest, 3, {"/", "?", "#"}) - 1)
        ELSE <<>>

\* urlparse raises on anything that is not a string
UrlparseRaises(x) == x.t # "str"

(***************************************************************************)
(* dateutil.parser.parse, on the timestamps the records carry: a date      *)
(* YYYY-MM-DD, alone or followed by 'T' and a time of day.  Anything that  *)
(* is not a string raises TypeError, a string without a date ParserError.  *)
(***************************************************************************)
IsLeap(y) == y % 4 = 0 /\ (y % 100 # 0 \/ y % 400 = 0)

DaysIn(y, m) ==
    IF m = 2 THEN (IF IsLeap(y) THEN 29 ELSE 28)
    ELSE IF m \in {4, 6, 9, 11} THEN 30
    ELSE 31

NoDate == [ok |-> FALSE, y |-> 0, m |-> 0, d |-> 0]

DateutilParse(x) ==
    IF x.t # "str" THEN NoDate
    ELSE LET s == x.v
         IN  IF /\ Len(s) >= 10
                /\ AllDigits(SubSeq(s, 1, 4))
                /\ s[5] = "-"
                /\ AllDigits(SubSeq(s, 6, 7))
                /\ s[8] = "-"
                /\ AllDigits(SubSeq(s, 9, 10))
                /\ (Len(s) = 10 \/ s[11] = "T")
                /\ DigitsVal(SubSeq(s, 1, 4)) >= 1
                /\ DigitsVal(SubSeq(s, 6, 7)) \in 1..12
                /\ DigitsVal(SubSeq(s, 9, 10)) \in
                      1..DaysIn(DigitsVal(SubSeq(s, 1, 4)), DigitsVal(SubSeq(s, 6, 7)))
             THEN [ok |-> TRUE,
                   y |-> DigitsVal(SubSeq(s, 1, 4)),
                   m |-> DigitsVal(SubSeq(s, 6, 7)),
                   d |-> DigitsVal(SubSeq(s, 9, 10))]
             ELSE NoDate

\* gen_date.strftime('%Y-%m-%d')
StrftimeYmd(dt) == Pad(dt.y, 4) \o <<"-">> \o Pad(dt.m, 2) \o <<"-">> \o Pad(dt.d, 2)

MonthName(m) ==
    <<"January", "February", "March", "April", "May", "June", "July",
      "August", "September", "October", "November", "December">>[m]

\* gen_date.strftime('%B %d, %Y'); the month name is one element of the string
StrftimeLong(dt) ==
    <<MonthName(dt.m), " ">> \o Pad(dt.d, 2) \o <<",", " ">> \o Pad(dt.y, 4)

(***************************************************************************)
(* Grades                                                                  *)
(***************************************************************************)
\* _get_grade with one band tested by > instead of >=
_get_grade_strict(score) ==
    IF score >= 97 THEN "A+"
    ELSE IF score >= 93 THEN "A"
    ELSE IF score > 90 THEN "A-"
    ELSE IF score >= 87 THEN "B+"
    ELSE IF score >= 83 THEN "B"
    ELSE IF score >= 80 THEN "B-"
    ELSE IF score >= 77 THEN "C+"
    ELSE IF score >= 73 THEN "C"
    ELSE IF score >= 70 THEN "C-"
    ELSE IF score >= 67 THEN "D+"
    ELSE IF score >= 63 THEN "D"
    ELSE IF score >= 60 THEN "D-"
    ELSE "F"

\* ReportGenerator._get_grade
_get_grade(score) ==
    IF score >= 97 THEN "A+"
    ELSE IF score >= 93 THEN "A"
    ELSE IF score >= 90 THEN "A-"
    ELSE IF score >= 87 THEN "B+"
    ELSE IF score >= 83 THEN "B"
    ELSE IF score >= 80 THEN "B-"
    ELSE IF score >= 77 THEN "C+"
    ELSE IF score >= 73 THEN "C"
    ELSE IF score >= 70 THEN "C-"
    ELSE IF score >= 67 THEN "D+"
    ELSE IF score >= 63 THEN "D"
    ELSE IF score >= 60 THEN "D-"
    ELSE "F"

\* config.get_grade
get_grade(score) ==
    IF score >= 97 THEN "A+"
    ELSE IF score >= 93 THEN "A"
    ELSE IF score >= 90 THEN "A-"
    ELSE IF score >= 87 THEN "B+"
    ELSE IF score >= 83 THEN "B"
    ELSE IF score >= 80 THEN "B-"
    ELSE IF score >= 77 THEN "C+"
    ELSE IF score >= 73 THEN "C"
    ELSE IF score >= 70 THEN "C-"
    ELSE IF score >= 67 THEN "D+"
    ELSE IF score >= 63 THEN "D"
    ELSE IF score >= 60 THEN "D-"
    ELSE "F"

\* score >= 97 raises TypeError unless score is a number
CompareRaises(x) == x.t # "int"

(***************************************************************************)
(* config.validate_json_data                                               *)
(***************************************************************************)
required_fields == {"url", "generatedAt", "overallScore", "overallRating"}

\* int(x) raises ValueError or TypeError
IntRaises(x) ==
    CASE x.t = "int" -> FALSE
      [] x.t = "str" ->
            ~ \/ AllDigits(x.v)
              \/ /\ Len(x.v) >= 2
                 /\ x.v[1] \in {"-", "+"}
                 /\ AllDigits(Tail(x.v))
      [] OTHER -> TRUE

\* int(x) where it does not raise
IntOf(x) ==
    IF x.t = "int" THEN x.v
    ELSE IF x.v[1] = "-" THEN 0 - DigitsVal(Tail(x.v))
    ELSE IF x.v[1] = "+" THEN DigitsVal(Tail(x.v))
    ELSE DigitsVal(x.v)

validate_json_data(data) ==
    IF \E field \in required_fields : field \notin DOMAIN data THEN FALSE
    ELSE IF IntRaises(data["overallScore"]) THEN FALSE
    ELSE LET score == IntOf(data["overallScore"])
         IN  ~ (score < 0 \/ score > 100)

(***************************************************************************)
(* Sample data: urls, timestamps, scores and the records built from them   *)
(***************************************************************************)
Https == <<"h", "t", "t", "p", "s", ":", "/", "/">>
Www == <<"w", "w", "w", ".">>
TestSiteCom == <<"t", "e", "s", "t", "-", "s", "i", "t", "e", ".", "c", "o", "m">>
ExampleCom == <<"e", "x", "a", "m", "p", "l", "e", ".", "c", "o", "m">>

UrlTestSite == JStr(Https \o TestSiteCom \o <<"/">>)
UrlWwwExample == JStr(Https \o Www \o ExampleCom \o <<"/">>)
UrlTestSitePage == JStr(Https \o TestSiteCom \o <<"/", "a">>)

\* https://shop-www.example.com/: a host with 'www.' past its start
ShopWww == <<"s", "h", "o", "p", "-", "w", "w", "w", ".">>
UrlShopWww == JStr(Https \o ShopWww \o ExampleCom \o <<"/">>)

Aug13 == <<"2", "0", "2", "5", "-", "0", "8", "-", "1", "3">>
GenAug13Ten == JStr(Aug13 \o <<"T", "1", "0", ":", "0", "0", ":", "0", "0", "Z">>)
GenAug13Two == JStr(Aug13 \o <<"T", "1", "4", ":", "3", "0", ":", "0", "0", "Z">>)
GenJan02 == JStr(<<"2", "0", "2", "5", "-", "0", "1", "-", "0", "2">>)
GenWords == JStr(<<"s", "o", "o", "n">>)
GenEmpty == JStr(<<>>)
GenNumber == JInt(5)

RatingGood == JStr(<<"G", "o", "o", "d">>)
RatingPoor == JStr(<<"P", "o", "o", "r">>)

ScoreAbc == JStr(<<"a", "b", "c">>)

Urls == {UrlTestSite, UrlWwwExample, UrlTestSitePage, UrlShopWww, JInt(7)}
Gens == {GenAug13Ten, GenAug13Two, GenJan02, GenWords, GenEmpty, GenNumber, JNull}
Scores == {JInt(0 - 1), JInt(0), JInt(78), JInt(100), JInt(101), ScoreAbc, JNull}
Ratings == {RatingGood}

FullRecords ==
    {[url |-> u, generatedAt |-> g, overallScore |-> sc, overallRating |-> r] :
        u \in Urls, g \in Gens, sc \in Scores, r \in Ratings}

\* the record without one key
Without(rec, key) == [f \in (DOMAIN rec) \ {key} |-> rec[f]]

BaseRecord ==
    [url |-> UrlTestSite, generatedAt |-> GenAug13Ten,
     overallScore |-> JInt(78), overallRating |-> RatingGood]

\* what a one-shot run may be given
SingleRecords ==
    FullRecords \cup {Without(BaseRecord, f) : f \in required_fields}

\* the file cannot be opened, or does not hold JSON (missing, partly written)
Unreadable == [json |-> FALSE, obj |-> <<>>]

\* the file holds the JSON object rec
Holds(rec) == [json |-> TRUE, obj |-> rec]

\* what the files of the watched directory may hold
WatchRecords ==
    { BaseRecord,
      [BaseRecord EXCEPT !["overallScore"] = JInt(95), !["overallRating"] = RatingPoor,
                         !["generatedAt"] = GenAug13Two, !["url"] = UrlTestSitePage],
      Without(BaseRecord, "overallScore") }

\* the modules a record may carry: none, one or two of them, each without a
\* summary, with a summary that has no score, or with a score
ModuleKeys == {"performance", "security"}

ModuleScores == {JInt(59), JInt(60), JInt(85), JInt(97), ScoreAbc}

ModuleObjects ==
    {[issues |-> JInt(3)], [summary |-> [rating |-> RatingGood]]}
        \cup {[summary |-> [score |-> sc]] : sc \in ModuleScores}

ModuleDicts == UNION {[K -> ModuleObjects] : K \in SUBSET ModuleKeys}

\* the base record with modules, and with one or another overall score
ModuleRecords ==
    {[url |-> UrlTestSite, generatedAt |-> GenAug13Ten, overallScore |-> sc,
      overallRating |-> RatingGood, modules |-> md] :
        sc \in {JInt(78), JInt(95)}, md \in ModuleDicts}

(***************************************************************************)
(* Paths and watchdog events                                               *)
(***************************************************************************)
PathA == <<"a", ".", "j", "s", "o", "n">>
PathB == <<"b", ".", "J", "S", "O", "N">>
PathC == <<"c", ".", "t", "x", "t">>
PathD == <<"d", ".", "j", "s", "o", "n">>

JsonPaths == {PathA, PathB}

\* the events the observer may deliver: PathD is a directory
Events ==
    { [src_path |-> PathA, is_directory |-> FALSE],
      [src_path |-> PathB, is_directory |-> FALSE],
      [src_path |-> PathC, is_directory |-> FALSE],
      [src_path |-> PathD, is_directory |-> TRUE] }

\* the index of the last '.' of s, 0 if none
RECURSIVE LastDot(_, _)
LastDot(s, i) ==
    IF i = 0 THEN 0
    ELSE IF s[i] = "." THEN i
    ELSE LastDot(s, i - 1)

\* Path(p).suffix
Suffix(p) ==
    LET i == LastDot(p, Len(p))
    IN  IF i <= 1 THEN <<>> ELSE SubSeq(p, i, Len(p))

LowerChar(c) ==
    CASE c = "J" -> "j" [] c = "S" -> "s" [] c = "O" -> "o" [] c = "N" -> "n"
      [] c = "T" -> "t" [] c = "Z" -> "z" [] OTHER -> c

\* str.lower()
Lower(s) == [i \in 1..Len(s) |-> LowerChar(s[i])]

DotJson == <<".", "j", "s", "o", "n">>

(***************************************************************************)
(* Bounds                                                                  *)
(***************************************************************************)
MaxEvents == 3
MaxWrites == 1
MaxDay == 2

(***************************************************************************)
(* State                                                                   *)
(***************************************************************************)
VARIABLES
    mode,             \* "single" (--single given) or "watch"
    files,            \* the input files: path -> Unreadable or a record
    output_dir,       \* ReportGenerator.output_dir
    disk,             \* the image files written so far: [dir, name]
    processed_files,  \* FileWatcher.processed_files
    pc,               \* where the running job (or main) stands
    job,              \* the running job: its path, what it read (raw), its data,
                      \* the day it read off the clock, its file name and result
    trace,            \* the engine calls of the running job, with their outcomes
    named,            \* the jobs that computed a file name: [path, data, filename]
    started,          \* path -> number of jobs started for it
    skipped,          \* path -> number of events dropped as already processed
    renders,          \* path -> number of screenshots taken for it
    faulted,          \* the paths a job of which had the template or the engine raise
    nEvents,          \* events delivered so far
    nWrites,          \* writes to the input files so far
    exit_code,        \* the status main exits with, JNull while running
    stopped,          \* observer.stop() has been called
    sessions          \* the browsers that are open

vars == <<mode, files, output_dir, disk, processed_files, pc, job, trace,
          named, started, skipped, renders, faulted, nEvents, nWrites, exit_code,
          stopped, sessions>>

NoData == <<>>
\* generate_png's local variable browser before p.chromium.launch() returned
NoBrowser == [path |-> <<>>, run |-> 0]

NoJob == [path |-> <<>>, raw |-> Unreadable, data |-> NoData, clock |-> 0,
          output_filename |-> <<>>, browser |-> NoBrowser, result |-> JNull]

Cwd == "."
ReportsFinal == "reports-final"
OutputDirs == {ReportsFinal, Cwd}

FirstDay == [y |-> 2025, m |-> 8, d |-> 13]

\* datetime.now() on day n of the run
ClockDate(n) == [ok |-> TRUE, y |-> FirstDay.y, m |-> FirstDay.m, d |-> FirstDay.d + n - 1]

Contents == {Unreadable} \cup {Holds(r) : r \in WatchRecords}

InitCommon ==
    /\ disk = {}
    /\ processed_files = {}
    /\ named = {}
    /\ started = [p \in JsonPaths |-> 0]
    /\ skipped = [p \in JsonPaths |-> 0]
    /\ renders = [p \in JsonPaths |-> 0]
    /\ faulted = {}
    /\ nEvents = 0
    /\ nWrites = 0
    /\ exit_code = JNull
    /\ stopped = FALSE
    /\ sessions = {}

\* main with --single: generate_report(single_file) is about to run
InitSingle ==
    /\ mode = "single"
    /\ output_dir \in OutputDirs
    /\ \E c \in {Unreadable} \cup {Holds(r) : r \in SingleRecords} :
          files = [p \in JsonPaths |-> IF p = PathA THEN c ELSE Unreadable]
    /\ pc = "parse"
    /\ job = [NoJob EXCEPT !.path = PathA]
    /\ InitCommon
    /\ trace = <<>>

\* main without --single: the observer is started, no event delivered yet
InitWatch ==
    /\ mode = "watch"
    /\ output_dir = ReportsFinal
    /\ files \in [JsonPaths -> Contents]
    /\ pc = "idle"
    /\ job = NoJob
    /\ InitCommon
    /\ trace = <<>>

Init == InitSingle \/ InitWatch

(***************************************************************************)
(* ReportGenerator: the steps of generate_report as functions of the data  *)
(***************************************************************************)
Raised == [raised |-> TRUE, data |-> NoData]
Returned(d) == [raised |-> FALSE, data |-> d]

\* the empty dict
EmptyDict == [k \in {} |-> 0]

\* data.get('modules', {})
GetModules(obj) == IF "modules" \in DOMAIN obj THEN obj["modules"] ELSE EmptyDict

\* parse_json_data reading every field with data.get(field, ''), no check
parse_json_data_lenient(content) ==
    IF ~ content.json THEN Raised
    ELSE Returned(("modules" :> GetModules(content.obj))
                  @@ [f \in required_fields |->
                        IF f \in DOMAIN content.obj THEN content.obj[f] ELSE JStr(<<>>)])

\* parse_json_data: json.load, the required-field check, the parsed dict
parse_json_data(content) ==
    IF ~ content.json THEN Raised
    ELSE IF \E field \in required_fields : field \notin DOMAIN content.obj THEN Raised
    ELSE Returned(("modules" :> GetModules(content.obj))
                  @@ [f \in required_fields |-> content.obj[f]])

\* data['formattedDate'], set only when generatedAt is truthy
WithFormattedDate(data) ==
    IF Truthy(data["generatedAt"])
    THEN LET gen_date == DateutilParse(data["generatedAt"])
         IN  ("formattedDate" :>
                 (IF gen_date.ok THEN JStr(StrftimeLong(gen_date))
                                 ELSE data["generatedAt"])) @@ data
    ELSE data

\* parsed_url.netloc.replace('www.', '')
DomainOf(url) == Replace(Netloc(url), Www, <<>>)

\* the keys of the modules that have a summary with a score
ScoredModules(data) ==
    {module_key \in DOMAIN data["modules"] :
        /\ "summary" \in DOMAIN data["modules"][module_key]
        /\ "score" \in DOMAIN data["modules"][module_key]["summary"]}

\* _get_grade raises on the score of one of the modules
ModuleGradeRaises(data) ==
    \E module_key \in ScoredModules(data) :
        CompareRaises(data["modules"][module_key]["summary"]["score"])

\* moduleGrade with every module given the grade of the overall score
ModuleGradeOfOverall(data) ==
    [module_key \in ScoredModules(data) |-> _get_grade(data["overallScore"].v)]

\* data['moduleGrade'] after the loop over data['modules'].items()
ModuleGrade(data) ==
    [module_key \in ScoredModules(data) |->
        _get_grade(data["modules"][module_key]["summary"]["score"].v)]

\* generate_html without the try around the date formatting
generate_html_strict(data, render_raises) ==
    IF Truthy(data["generatedAt"]) /\ ~ DateutilParse(data["generatedAt"]).ok THEN Raised
    ELSE IF UrlparseRaises(data["url"]) THEN Raised
    ELSE IF CompareRaises(data["overallScore"]) THEN Raised
    ELSE IF ModuleGradeRaises(data) THEN Raised
    ELSE IF render_raises THEN Raised
    ELSE Returned(("domain" :> DomainOf(data["url"].v))
                  @@ ("overallGrade" :> _get_grade(data["overallScore"].v))
                  @@ ("moduleGrade" :> ModuleGrade(data))
                  @@ WithFormattedDate(data))

\* generate_html; render_raises: the template's render raises
generate_html(data, render_raises) ==
    LET d1 == WithFormattedDate(data)
    IN  IF UrlparseRaises(data["url"]) THEN Raised
        ELSE IF CompareRaises(data["overallScore"]) THEN Raised
        ELSE IF ModuleGradeRaises(data) THEN Raised
        ELSE IF render_raises THEN Raised
        ELSE Returned(("domain" :> DomainOf(data["url"].v))
                      @@ ("overallGrade" :> _get_grade(data["overallScore"].v))
                      @@ ("moduleGrade" :> ModuleGrade(data))
                      @@ d1)

BrandSuffix == <<"_", "w", "e", "b", "e", "v", "o", "-", "a", "i", ".", "p", "n", "g">>

\* generate_report's try: dateutil.parser.parse(data['generatedAt']) raises
DateParseRaises(data) == ~ DateutilParse(data["generatedAt"]).ok

\* date_str; now: what datetime.now() returns, read only in the except branch
DateStr(data, now) ==
    IF DateParseRaises(data)
    THEN StrftimeYmd(now)
    ELSE StrftimeYmd(DateutilParse(data["generatedAt"]))

\* output_filename without the .replace('www.', '')
OutputFilenameKeepingWww(data, now) ==
    Replace(Netloc(data["url"].v), <<".">>, <<"-">>)
        \o <<"_">> \o DateStr(data, now) \o BrandSuffix

\* output_filename of generate_report
OutputFilename(data, now) ==
    Replace(Replace(Netloc(data["url"].v), Www, <<>>), <<".">>, <<"-">>)
        \o <<"_">> \o DateStr(data, now) \o BrandSuffix

\* a capture that never overwrites: the name is followed by the number of
\* images written before
ScreenshotFileVersioned(path) ==
    [dir |-> Cwd, name |-> path \o <<".">> \o Pad(Cardinality(disk), 1)]

\* the file page.screenshot(path=...) writes: a relative name lands in the
\* working directory
ScreenshotFile(path) == [dir |-> Cwd, name |-> path]

(***************************************************************************)
(* Program constants (seconds)                                             *)
(***************************************************************************)
DebounceDelay == 1
PrimaryTimeout == 15
SecondaryTimeout == 10
FixedDelay == 5
SettleDelay == 2

(***************************************************************************)
(* Steps                                                                   *)
(***************************************************************************)
Step(op, out, arg) == [op |-> op, out |-> out, arg |-> arg]

\* generate_report without its try: the exception leaves it, and the caller's
\* handler of exceptions ends the job
ReRaise ==
    /\ pc' = IF mode = "watch" THEN "idle" ELSE "exit"
    /\ job' = NoJob

\* an exception reaches generate_report's except: it returns None
ReturnNone ==
    /\ pc' = "report_return"
    /\ job' = [job EXCEPT !.result = JNull]

\* _process_file without the look-up in processed_files
_process_file_unchecked(file_path) ==
    /\ pc' = "debounce"
    /\ job' = [NoJob EXCEPT !.path = file_path]
    /\ trace' = <<>>
    /\ started' = [started EXCEPT ![file_path] = @ + 1]
    /\ UNCHANGED skipped

\* _process_file calling generate_report at once, without the time.sleep(1)
_process_file_eager(file_path) ==
    IF file_path \in processed_files
    THEN /\ skipped' = [skipped EXCEPT ![file_path] = @ + 1]
         /\ UNCHANGED <<pc, job, trace, started>>
    ELSE /\ pc' = "parse"
         /\ job' = [NoJob EXCEPT !.path = file_path]
         /\ trace' = <<>>
         /\ started' = [started EXCEPT ![file_path] = @ + 1]
         /\ UNCHANGED skipped

\* FileWatcher._process_file up to its first wait
_process_file(file_path) ==
    IF file_path \in processed_files
    THEN /\ skipped' = [skipped EXCEPT ![file_path] = @ + 1]
         /\ UNCHANGED <<pc, job, trace, started>>
    ELSE /\ pc' = "debounce"
         /\ job' = [NoJob EXCEPT !.path = file_path]
         /\ trace' = <<>>
         /\ started' = [started EXCEPT ![file_path] = @ + 1]
         /\ UNCHANGED skipped

\* a handler entered while another call of a handler is still running
HandleEventReentrant(ev) ==
    /\ mode = "watch"
    /\ pc # "exit"
    /\ ~ stopped
    /\ nEvents < MaxEvents
    /\ nEvents' = nEvents + 1
    /\ IF ev.is_directory
       THEN UNCHANGED <<pc, job, trace, started, skipped>>
       ELSE IF Lower(Suffix(ev.src_path)) = DotJson
            THEN _process_file(ev.src_path)
            ELSE UNCHANGED <<pc, job, trace, started, skipped>>
    /\ UNCHANGED <<mode, stopped, sessions, files, output_dir, disk, processed_files,
                   named, renders, faulted, nWrites, exit_code>>

\* the handlers comparing the suffix as it is written, without .lower()
HandleEventCaseSensitive(ev) ==
    /\ mode = "watch"
    /\ pc = "idle"
    /\ ~ stopped
    /\ nEvents < MaxEvents
    /\ nEvents' = nEvents + 1
    /\ IF ev.is_directory
       THEN UNCHANGED <<pc, job, trace, started, skipped>>
       ELSE IF Suffix(ev.src_path) = DotJson
            THEN _process_file(ev.src_path)
            ELSE UNCHANGED <<pc, job, trace, started, skipped>>
    /\ UNCHANGED <<mode, stopped, sessions, files, output_dir, disk, processed_files,
                   named, renders, faulted, nWrites, exit_code>>

\* the body shared by on_created and on_modified
HandleEvent(ev) ==
    /\ mode = "watch"
    /\ pc = "idle"
    /\ ~ stopped
    /\ nEvents < MaxEvents
    /\ nEvents' = nEvents + 1
    /\ IF ev.is_directory
       THEN UNCHANGED <<pc, job, trace, started, skipped>>
       ELSE IF Lower(Suffix(ev.src_path)) = DotJson
            THEN _process_file(ev.src_path)
            ELSE UNCHANGED <<pc, job, trace, started, skipped>>
    /\ UNCHANGED <<mode, stopped, sessions, files, output_dir, disk, processed_files, named,
                   renders, faulted, nWrites, exit_code>>

on_created(ev) == HandleEvent(ev)

on_modified(ev) == HandleEvent(ev)

\* time.sleep(1) of _process_file
Debounce ==
    /\ pc = "debounce"
    /\ pc' = "parse"
    /\ trace' = Append(trace, Step("debounce", "ok", DebounceDelay))
    /\ UNCHANGED <<mode, stopped, sessions, files, output_dir, disk, processed_files, job,
                   named, started, skipped, renders, faulted, nEvents, nWrites, exit_code>>

\* generate_report: data = self.parse_json_data(json_file_path)
Parse ==
    /\ pc = "parse"
    /\ LET r == parse_json_data(files[job.path])
       IN  /\ trace' = Append(trace, Step("parse_json_data",
                                          IF r.raised THEN "raise" ELSE "ok", 0))
           /\ IF r.raised
              THEN /\ pc' = "report_return"
                   /\ job' = [job EXCEPT !.raw = files[job.path], !.result = JNull]
              ELSE /\ pc' = "html"
                   /\ job' = [job EXCEPT !.raw = files[job.path], !.data = r.data]
    /\ UNCHANGED <<mode, stopped, sessions, files, output_dir, disk, processed_files, named,
                   started, skipped, renders, faulted, nEvents, nWrites, exit_code>>

\* generate_report going on to the file name when generate_html raised
HtmlUnchecked ==
    /\ pc = "html"
    /\ \E render_raises \in BOOLEAN :
          LET r == generate_html(job.data, render_raises)
          IN  /\ trace' = Append(trace, Step("generate_html",
                                             IF r.raised THEN "raise" ELSE "ok", 0))
              /\ pc' = "name"
              /\ job' = IF r.raised THEN job ELSE [job EXCEPT !.data = r.data]
    /\ UNCHANGED <<mode, stopped, sessions, files, output_dir, disk, processed_files,
                   named, started, skipped, renders, faulted, nEvents, nWrites, exit_code>>

\* generate_report: html_content = self.generate_html(data)
Html ==
    /\ pc = "html"
    /\ \E render_raises \in BOOLEAN :
          LET r == generate_html(job.data, render_raises)
              by_template == render_raises /\ ~ generate_html(job.data, FALSE).raised
          IN  /\ trace' = Append(trace, Step("generate_html",
                                             IF by_template THEN "render_raise"
                                             ELSE IF r.raised THEN "raise" ELSE "ok", 0))
              /\ faulted' = IF by_template THEN faulted \cup {job.path} ELSE faulted
              /\ IF r.raised
                 THEN ReturnNone
                 ELSE /\ pc' = "name"
                      /\ job' = [job EXCEPT !.data = r.data]
    /\ UNCHANGED <<mode, stopped, sessions, files, output_dir, disk, processed_files, named,
                   started, skipped, renders, nEvents, nWrites, exit_code>>

\* generate_report: the output file name; datetime.now() is read, and gives
\* some day of the run, only when generatedAt does not parse
Name ==
    /\ pc = "name"
    /\ \E n \in (IF DateParseRaises(job.data) THEN 1..MaxDay ELSE {0}) :
          LET output_filename == OutputFilename(job.data, ClockDate(n))
          IN  /\ job' = [job EXCEPT !.output_filename = output_filename, !.clock = n]
              /\ named' = named \cup {[path |-> job.path, data |-> job.data,
                                       filename |-> output_filename]}
    /\ pc' = "launch"
    /\ UNCHANGED <<mode, stopped, sessions, files, output_dir, disk, processed_files, trace,
                   started, skipped, renders, faulted, nEvents, nWrites, exit_code>>

\* one Browser kept by the generator and handed to every job
SharedBrowser == [path |-> <<>>, run |-> 1]

\* the Browser object p.chromium.launch() returns: a new object, named by
\* the call that made it (the job's path and which job for the path it is)
NewBrowser == [path |-> job.path, run |-> started[job.path]]

\* the session of a browser ends: browser.close() returned, or the
\* sync_playwright block is left by an exception (playwright stops)
EndSession(browser) == sessions \ {browser}

\* an engine call whose exception is swallowed: the job goes on
EngineCallSwallowing(at, op, next) ==
    /\ pc = at
    /\ \E out \in {"ok", "raise"} :
          /\ trace' = Append(trace, Step(op, out, 0))
          /\ pc' = next
          /\ UNCHANGED <<job, faulted, sessions>>
    /\ UNCHANGED <<mode, stopped, files, output_dir, disk, processed_files, named,
                   started, skipped, renders, nEvents, nWrites, exit_code>>

\* an engine call outside any with block: its exception leaves the browser
\* running
EngineCallLeaking(at, op, next) ==
    /\ pc = at
    /\ \E out \in {"ok", "raise"} :
          /\ trace' = Append(trace, Step(op, out, 0))
          /\ IF out = "ok"
             THEN pc' = next /\ UNCHANGED <<job, faulted, sessions>>
             ELSE /\ ReturnNone
                  /\ faulted' = faulted \cup {job.path}
                  /\ UNCHANGED sessions
    /\ UNCHANGED <<mode, stopped, files, output_dir, disk, processed_files, named,
                   started, skipped, renders, nEvents, nWrites, exit_code>>

\* a call of the render engine that returns or raises
EngineCall(at, op, next) ==
    /\ pc = at
    /\ \E out \in {"ok", "raise"} :
          /\ trace' = Append(trace, Step(op, out, 0))
          /\ IF out = "ok"
             THEN pc' = next /\ UNCHANGED <<job, faulted, sessions>>
             ELSE /\ ReturnNone
                  /\ faulted' = faulted \cup {job.path}
                  /\ sessions' = EndSession(job.browser)
    /\ UNCHANGED <<mode, stopped, files, output_dir, disk, processed_files, named,
                   started, skipped, renders, nEvents, nWrites, exit_code>>

\* generate_png: sync_playwright(), p.chromium.launch(headless=True)
Launch ==
    /\ pc = "launch"
    /\ \E out \in {"ok", "raise"} :
          /\ trace' = Append(trace, Step("launch", out, 0))
          /\ IF out = "ok"
             THEN /\ pc' = "new_page"
                  /\ job' = [job EXCEPT !.browser = NewBrowser]
                  /\ sessions' = sessions \cup {NewBrowser}
                  /\ UNCHANGED faulted
             ELSE /\ ReturnNone
                  /\ faulted' = faulted \cup {job.path}
                  /\ UNCHANGED sessions
    /\ UNCHANGED <<mode, stopped, files, output_dir, disk, processed_files, named,
                   started, skipped, renders, nEvents, nWrites, exit_code>>

\* generate_png: browser.new_page()
NewPage == EngineCall("new_page", "new_page", "set_content")

\* generate_png: page.set_content(html_content, wait_until='networkidle')
SetContent == EngineCall("set_content", "set_content", "primary")

\* the seconds a wait_for_selector with the given timeout may have taken:
\* the whole timeout when it timed out; less when it returned or raised
\* something else, which it does before the timeout expires
PollTimes(out, timeout) ==
    IF out = "timeout" THEN {timeout} ELSE 0..(timeout - 1)

\* page.wait_for_selector: the region appears, the wait times out, or the
\* call raises something else; whatever is raised, the except takes it.  The
\* step records the timeout the call was given.
Poll(at, op, timeout, found, absent) ==
    /\ pc = at
    /\ \E out \in {"ok", "timeout", "raise"} :
          /\ trace' = Append(trace, Step(op, out, timeout))
          /\ pc' = IF out = "ok" THEN found ELSE absent
    /\ UNCHANGED <<mode, stopped, sessions, files, output_dir, disk, processed_files, job,
                   named, started, skipped, renders, faulted, nEvents, nWrites, exit_code>>

\* the primary poll going to the fixed delay when the region is absent
PollPrimarySkipping ==
    Poll("primary", "wait_primary", PrimaryTimeout, "settle", "fixed_delay")

\* the primary poll in a try that catches the timeout only: anything else
\* it raises leaves generate_png
PollPrimaryTimeoutOnly ==
    /\ pc = "primary"
    /\ \E out \in {"ok", "timeout", "raise"} :
          /\ trace' = Append(trace, Step("wait_primary", out, PrimaryTimeout))
          /\ IF out = "raise"
             THEN /\ ReturnNone
                  /\ faulted' = faulted \cup {job.path}
                  /\ sessions' = EndSession(job.browser)
             ELSE /\ pc' = IF out = "ok" THEN "settle" ELSE "secondary"
                  /\ UNCHANGED <<job, faulted, sessions>>
    /\ UNCHANGED <<mode, stopped, files, output_dir, disk, processed_files, named,
                   started, skipped, renders, nEvents, nWrites, exit_code>>

\* the primary poll given twice its timeout
PollPrimaryLong ==
    Poll("primary", "wait_primary", 2 * PrimaryTimeout, "settle", "secondary")

\* generate_png: wait for '#opportunities-list > div'
PollPrimary == Poll("primary", "wait_primary", PrimaryTimeout, "settle", "secondary")

\* the secondary poll with its exception left to propagate
PollSecondaryFatal ==
    /\ pc = "secondary"
    /\ \E out \in {"ok", "timeout", "raise"} :
          /\ trace' = Append(trace, Step("wait_secondary", out, SecondaryTimeout))
          /\ IF out = "ok"
             THEN pc' = "settle" /\ UNCHANGED job
             ELSE ReturnNone
    /\ UNCHANGED <<mode, stopped, sessions, files, output_dir, disk, processed_files, named, started,
                   skipped, renders, faulted, nEvents, nWrites, exit_code>>

\* generate_png: wait for '#warnings-list > div'
PollSecondary == Poll("secondary", "wait_secondary", SecondaryTimeout, "settle", "fixed_delay")

Sleep(at, op, seconds, next) ==
    /\ pc = at
    /\ trace' = Append(trace, Step(op, "ok", seconds))
    /\ pc' = next
    /\ UNCHANGED <<mode, stopped, sessions, files, output_dir, disk, processed_files, job,
                   named, started, skipped, renders, faulted, nEvents, nWrites, exit_code>>

\* the fixed delay followed by the screenshot at once, time.sleep(2) being
\* inside the last except
SleepFixedThenCapture == Sleep("fixed_delay", "fixed_delay", FixedDelay, "screenshot")

\* generate_png: time.sleep(5)
SleepFixed == Sleep("fixed_delay", "fixed_delay", FixedDelay, "settle")

\* generate_png: time.sleep(2)
SleepSettle == Sleep("settle", "settle", SettleDelay, "screenshot")

\* generate_png: page.screenshot(path=output_filename, full_page=True, type='png')
Screenshot ==
    /\ pc = "screenshot"
    /\ \E out \in {"ok", "raise"} :
          /\ trace' = Append(trace, Step("screenshot", out, 0))
          /\ IF out = "ok"
             THEN /\ disk' = disk \cup {ScreenshotFile(job.output_filename)}
                  /\ renders' = [renders EXCEPT ![job.path] = @ + 1]
                  /\ pc' = "close"
                  /\ UNCHANGED <<job, faulted, sessions>>
             ELSE /\ ReturnNone
                  /\ faulted' = faulted \cup {job.path}
                  /\ sessions' = EndSession(job.browser)
                  /\ UNCHANGED <<disk, renders>>
    /\ UNCHANGED <<mode, stopped, files, output_dir, processed_files, named,
                   started, skipped, nEvents, nWrites, exit_code>>

\* generate_png: browser.close(), leaving the with block, return output_filename;
\* generate_report: return str(png_path)
Close ==
    /\ pc = "close"
    /\ \E out \in {"ok", "raise"} :
          /\ trace' = Append(trace, Step("close", out, 0))
          /\ IF out = "ok"
             THEN /\ pc' = "report_return"
                  /\ job' = [job EXCEPT !.result = JStr(job.output_filename)]
                  /\ UNCHANGED faulted
             ELSE ReturnNone /\ faulted' = faulted \cup {job.path}
    /\ sessions' = EndSession(job.browser)
    /\ UNCHANGED <<mode, stopped, files, output_dir, disk, processed_files, named,
                   started, skipped, renders, nEvents, nWrites, exit_code>>

\* _process_file returning without the processed_files.add
WatchReturnForgetful ==
    /\ pc = "report_return"
    /\ mode = "watch"
    /\ pc' = "idle"
    /\ job' = NoJob
    /\ trace' = <<>>
    /\ UNCHANGED <<mode, stopped, sessions, files, output_dir, disk, processed_files, named, started,
                   skipped, renders, faulted, nEvents, nWrites, exit_code>>

\* _process_file letting a failure out of the handler: the observer's thread ends
WatchReturnStopping ==
    /\ pc = "report_return"
    /\ mode = "watch"
    /\ IF Truthy(job.result)
       THEN /\ processed_files' = processed_files \cup {job.path}
            /\ pc' = "idle"
            /\ UNCHANGED exit_code
       ELSE /\ pc' = "exit"
            /\ exit_code' = JInt(1)
            /\ UNCHANGED processed_files
    /\ job' = NoJob
    /\ trace' = <<>>
    /\ UNCHANGED <<mode, stopped, sessions, files, output_dir, disk, named, started,
                   skipped, renders, faulted, nEvents, nWrites>>

\* _process_file adding the path whatever generate_report returned
WatchReturnAlways ==
    /\ pc = "report_return"
    /\ mode = "watch"
    /\ processed_files' = processed_files \cup {job.path}
    /\ pc' = "idle"
    /\ job' = NoJob
    /\ trace' = <<>>
    /\ UNCHANGED <<mode, stopped, sessions, files, output_dir, disk, named, started,
                   skipped, renders, faulted, nEvents, nWrites, exit_code>>

\* _process_file starting over when generate_report returned None
WatchReturnRetrying ==
    /\ pc = "report_return"
    /\ mode = "watch"
    /\ IF Truthy(job.result)
       THEN /\ processed_files' = processed_files \cup {job.path}
            /\ pc' = "idle"
            /\ job' = NoJob
       ELSE /\ pc' = "debounce"
            /\ job' = [NoJob EXCEPT !.path = job.path]
            /\ UNCHANGED processed_files
    /\ trace' = <<>>
    /\ UNCHANGED <<mode, stopped, sessions, files, output_dir, disk, named, started, skipped,
                   renders, faulted, nEvents, nWrites, exit_code>>

\* _process_file after generate_report returned: if result: processed_files.add
WatchReturn ==
    /\ pc = "report_return"
    /\ mode = "watch"
    /\ processed_files' = IF Truthy(job.result)
                          THEN processed_files \cup {job.path}
                          ELSE processed_files
    /\ pc' = "idle"
    /\ job' = NoJob
    /\ trace' = <<>>
    /\ UNCHANGED <<mode, stopped, sessions, files, output_dir, disk, named, started, skipped,
                   renders, faulted, nEvents, nWrites, exit_code>>

\* main logging the failure without sys.exit(1)
SingleReturnQuiet ==
    /\ pc = "report_return"
    /\ mode = "single"
    /\ pc' = "exit"
    /\ exit_code' = JInt(0)
    /\ UNCHANGED <<mode, stopped, sessions, files, output_dir, disk, processed_files, job,
                   trace, named, started, skipped, renders, faulted, nEvents, nWrites>>

\* main after generate_report returned: sys.exit(1) unless there is a result
SingleReturn ==
    /\ pc = "report_return"
    /\ mode = "single"
    /\ pc' = "exit"
    /\ exit_code' = IF Truthy(job.result) THEN JInt(0) ELSE JInt(1)
    /\ UNCHANGED <<mode, stopped, sessions, files, output_dir, disk, processed_files, job,
                   trace, named, started, skipped, renders, faulted, nEvents, nWrites>>

(***************************************************************************)
(* The environment: the files of the watched directory change.  A job sees *)
(* them only when parse_json_data reads, so a write is taken before the    *)
(* read that first sees it.                                                *)
(***************************************************************************)
WriteFile ==
    /\ mode = "watch"
    /\ pc \in {"idle", "debounce", "parse"}
    /\ nWrites < MaxWrites
    /\ \E p \in JsonPaths, c \in Contents :
          /\ c # files[p]
          /\ files' = [files EXCEPT ![p] = c]
    /\ nWrites' = nWrites + 1
    /\ UNCHANGED <<mode, stopped, sessions, output_dir, disk, processed_files, pc, job, trace,
                   named, started, skipped, renders, faulted, nEvents, exit_code>>

(***************************************************************************)
(* watch_directory: the main thread sleeps in its loop until it is         *)
(* interrupted, then stops the observer and waits for its thread.  The     *)
(* observer thread ends when the handler it is in has returned.  These two *)
(* steps are part of SpecInterrupt.                                        *)
(***************************************************************************)
\* except KeyboardInterrupt: observer.stop()
observer_stop ==
    /\ mode = "watch"
    /\ pc # "exit"
    /\ ~ stopped
    /\ stopped' = TRUE
    /\ UNCHANGED <<files, output_dir, disk, processed_files, pc, job, trace,
                   named, started, skipped, renders, faulted, nEvents, nWrites,
                   exit_code, sessions, mode>>

\* watch_directory returning after observer.stop() without the join
observer_join_skipped ==
    /\ mode = "watch"
    /\ stopped
    /\ pc # "exit"
    /\ pc' = "exit"
    /\ exit_code' = JInt(0)
    /\ UNCHANGED <<files, output_dir, disk, processed_files, job, trace,
                   named, started, skipped, renders, faulted, nEvents, nWrites,
                   stopped, sessions, mode>>

\* observer.join() returns, watch_directory and main return
observer_join ==
    /\ mode = "watch"
    /\ stopped
    /\ pc = "idle"
    /\ pc' = "exit"
    /\ exit_code' = JInt(0)
    /\ UNCHANGED <<files, output_dir, disk, processed_files, job, trace,
                   named, started, skipped, renders, faulted, nEvents, nWrites,
                   stopped, sessions, mode>>

Next ==
    \/ \E ev \in Events : on_created(ev)
    \/ \E ev \in Events : on_modified(ev)
    \/ Debounce
    \/ Parse
    \/ Html
    \/ Name
    \/ Launch
    \/ NewPage
    \/ SetContent
    \/ PollPrimary
    \/ PollSecondary
    \/ SleepFixed
    \/ SleepSettle
    \/ Screenshot
    \/ Close
    \/ WatchReturn
    \/ SingleReturn
    \/ WriteFile

Spec == Init /\ [][Next]_vars

(***************************************************************************)
(* The watcher and its interruption: watch_directory from observer.start() *)
(* to its return, over every content of the two files, which are not       *)
(* rewritten meanwhile                                                     *)
(***************************************************************************)
NextInterrupt ==
    \/ \E ev \in Events : on_created(ev)
    \/ \E ev \in Events : on_modified(ev)
    \/ Debounce
    \/ Parse
    \/ Html
    \/ Name
    \/ Launch
    \/ NewPage
    \/ SetContent
    \/ PollPrimary
    \/ PollSecondary
    \/ SleepFixed
    \/ SleepSettle
    \/ Screenshot
    \/ Close
    \/ WatchReturn
    \/ observer_stop
    \/ observer_join

SpecInterrupt == InitWatch /\ [][NextInterrupt]_vars

(***************************************************************************)
(* The watcher left running: the observer's thread runs the handler it has *)
(* entered to its end, so the step the job in flight stands at is taken    *)
(* (each sleep ends, each call returns or raises)                          *)
(***************************************************************************)
JobStep ==
    \/ Debounce
    \/ Parse
    \/ Html
    \/ Name
    \/ Launch
    \/ NewPage
    \/ SetContent
    \/ PollPrimary
    \/ PollSecondary
    \/ SleepFixed
    \/ SleepSettle
    \/ Screenshot
    \/ Close
    \/ WatchReturn

NextLive ==
    \/ \E ev \in Events : on_created(ev)
    \/ \E ev \in Events : on_modified(ev)
    \/ JobStep

SpecLive == InitWatch /\ [][NextLive]_vars /\ WF_vars(JobStep)

(***************************************************************************)
(* The grading of every score: one-shot runs on the base record with each  *)
(* integer score from -ScoreSlack to 100 + ScoreSlack, up to generate_html *)
(***************************************************************************)
ScoreSlack == 5

GradeScores == (0 - ScoreSlack)..(100 + ScoreSlack)

InitGrade ==
    /\ mode = "single"
    /\ output_dir = ReportsFinal
    /\ \E sc \in GradeScores :
          files = [p \in JsonPaths |->
                     IF p = PathA
                     THEN Holds([BaseRecord EXCEPT !["overallScore"] = JInt(sc)])
                     ELSE Unreadable]
    /\ pc = "parse"
    /\ job = [NoJob EXCEPT !.path = PathA]
    /\ InitCommon
    /\ trace = <<>>

NextGrade == Parse \/ Html

SpecGrade == InitGrade /\ [][NextGrade]_vars

(***************************************************************************)
(* The grading of the modules: one-shot runs on the records that carry     *)
(* modules, up to generate_html                                            *)
(***************************************************************************)
InitModules ==
    /\ mode = "single"
    /\ output_dir = ReportsFinal
    /\ \E rec \in ModuleRecords :
          files = [p \in JsonPaths |-> IF p = PathA THEN Holds(rec) ELSE Unreadable]
    /\ pc = "parse"
    /\ job = [NoJob EXCEPT !.path = PathA]
    /\ InitCommon
    /\ trace = <<>>

NextModules == Parse \/ Html

SpecModules == InitModules /\ [][NextModules]_vars

(***************************************************************************)
(* Properties                                                              *)
(***************************************************************************)
HasStep(op, outs) == \E i \in 1..Len(trace) : trace[i].op = op /\ trace[i].out \in outs

AnyOut == {"ok", "raise", "timeout", "render_raise"}

\* C1: once a path is in processed_files it stays there, and from then on no
\* job is started for it and no screenshot is taken for it: an event for it
\* is dropped, whatever has been written to the file since.
C1_Deduplication ==
    [][\A p \in JsonPaths :
          p \in processed_files =>
              /\ p \in processed_files'
              /\ started'[p] = started[p]
              /\ renders'[p] = renders[p]
              /\ job'.path # p]_vars

\* an event for a processed path, whose file has been rewritten since, was dropped
C1_Witness ==
    \E p \in JsonPaths :
        /\ p \in processed_files
        /\ skipped[p] >= 1
        /\ files[p] = Unreadable

Count(op) == Cardinality({i \in 1..Len(trace) : trace[i].op = op})

\* C2: in every job the secondary region is polled only right after a primary
\* poll that ended without success, the fixed 5 second delay is taken only
\* right after a secondary poll that ended without success; after a primary
\* poll that succeeded there is neither a secondary poll nor the fixed delay,
\* after a secondary poll that succeeded there is no fixed delay; each of the
\* three happens at most once.
C2_ReadinessOrder ==
    /\ \A i \in 1..Len(trace) :
          /\ trace[i].op = "wait_secondary" =>
                /\ i > 1
                /\ trace[i - 1].op = "wait_primary"
                /\ trace[i - 1].out # "ok"
          /\ trace[i].op = "fixed_delay" =>
                /\ i > 2
                /\ trace[i].arg = FixedDelay
                /\ trace[i - 1].op = "wait_secondary"
                /\ trace[i - 1].out # "ok"
                /\ trace[i - 2].op = "wait_primary"
                /\ trace[i - 2].out # "ok"
    /\ HasStep("wait_primary", {"ok"}) =>
          ~ HasStep("wait_secondary", AnyOut) /\ ~ HasStep("fixed_delay", AnyOut)
    /\ HasStep("wait_secondary", {"ok"}) => ~ HasStep("fixed_delay", AnyOut)
    /\ \A op \in {"wait_primary", "wait_secondary", "fixed_delay"} : Count(op) <= 1
    /\ pc \in {"settle", "screenshot", "close"} =>
          \/ HasStep("wait_primary", {"ok"})
          \/ HasStep("wait_secondary", {"ok"})
          \/ HasStep("fixed_delay", {"ok"})

\* both polls timed out, the fixed delay was taken and the screenshot made
C2_Witness ==
    /\ HasStep("wait_primary", {"timeout"})
    /\ HasStep("wait_secondary", {"timeout"})
    /\ HasStep("fixed_delay", {"ok"})
    /\ HasStep("screenshot", {"ok"})

ReadinessSteps == {"primary", "secondary", "fixed_delay", "settle", "screenshot"}

JobMissingField ==
    /\ HasStep("parse_json_data", AnyOut)
    /\ job.raw.json
    /\ \E field \in required_fields : field \notin DOMAIN job.raw.obj

EngineOps == {"launch", "new_page", "set_content", "wait_primary", "wait_secondary",
              "fixed_delay", "settle", "screenshot", "close"}

\* C4: a job whose record lacks url, generatedAt, overallScore or
\* overallRating fails in parse_json_data: no model is built, generate_report
\* returns None (main exits with 1), no engine call is made, and no step of
\* the job writes an image or adds to processed_files.
C4_MissingFieldRejected ==
    /\ [](JobMissingField =>
            /\ pc \in {"report_return", "exit"}
            /\ job.result = JNull
            /\ job.data = NoData
            /\ job.output_filename = <<>>
            /\ HasStep("parse_json_data", {"raise"})
            /\ \A i \in 1..Len(trace) : trace[i].op \notin EngineOps \cup {"generate_html"}
            /\ pc = "exit" => exit_code = JInt(1))
    /\ [][JobMissingField =>
            /\ disk' = disk
            /\ renders' = renders
            /\ processed_files' = processed_files]_vars

\* in watch mode a job for a record without a required field has ended
C4_Witness ==
    /\ mode = "watch"
    /\ pc = "report_return"
    /\ JobMissingField
    /\ job.path \notin processed_files

\* C5 (as claimed): for a record with the four required fields and a string
\* url, generate_report decides on overallScore as config.validate_json_data
\* does: when validate_json_data rejects the record (101, -1, a non-numeric
\* string) generate_html does not succeed and no image is written, and when
\* it accepts the record (0, 100) generate_html does not raise on the data.
C5_ScoreValidated ==
    (HasStep("parse_json_data", {"ok"}) /\ job.raw.obj["url"].t = "str") =>
        IF validate_json_data(job.raw.obj)
        THEN ~ HasStep("generate_html", {"raise"})
        ELSE /\ ~ HasStep("generate_html", {"ok"})
             /\ ~ HasStep("screenshot", {"ok"})
             /\ job.output_filename = <<>>

\* the grade table of the specification: least score of each band, best first
GradeBands ==
    << <<97, "A+">>, <<93, "A">>, <<90, "A-">>, <<87, "B+">>, <<83, "B">>,
       <<80, "B-">>, <<77, "C+">>, <<73, "C">>, <<70, "C-">>, <<67, "D+">>,
       <<63, "D">>, <<60, "D-">> >>

GradeTable(s) ==
    LET hits == {i \in 1..Len(GradeBands) : s >= GradeBands[i][1]}
    IN  IF hits = {} THEN "F"
        ELSE GradeBands[CHOOSE i \in hits : \A k \in hits : i <= k][2]

\* 0 for A+, 12 for F
GradeRank(g) ==
    IF g = "F" THEN Len(GradeBands)
    ELSE (CHOOSE i \in 1..Len(GradeBands) : GradeBands[i][2] = g) - 1

GradeBoundaries == {GradeBands[i][1] : i \in 1..Len(GradeBands)}

\* C6: for every score s in 0..100 generate_html grades the record: the
\* grade it stores is the table's, it is the grade config.get_grade gives,
\* no lower score has a better grade, and the grade differs from that of
\* s - 1 exactly when s is one of 97, 93, 90, 87, 83, 80, 77, 73, 70, 67,
\* 63, 60.
C6_GradeTable ==
    (HasStep("parse_json_data", {"ok"}) /\ job.data["overallScore"].v \in 0..100) =>
        LET s == job.data["overallScore"].v
        IN  /\ ~ HasStep("generate_html", {"raise"})
            /\ HasStep("generate_html", {"ok"}) =>
                  LET g == job.data["overallGrade"]
                  IN  /\ g = GradeTable(s)
                      /\ g = get_grade(s)
                      /\ \A t \in 0..s : GradeRank(_get_grade(t)) >= GradeRank(g)
                      /\ s >= 1 => ((g # _get_grade(s - 1)) <=> (s \in GradeBoundaries))

\* the score 90, the least A-, has been graded
C6_Witness ==
    /\ HasStep("generate_html", {"ok"})
    /\ job.data["overallScore"] = JInt(90)
    /\ job.data["overallGrade"] = "A-"

\* a record the specification calls valid
IsValidRecord(rec) ==
    /\ validate_json_data(rec)
    /\ rec["url"].t = "str"
    /\ DateutilParse(rec["generatedAt"]).ok

\* test-site-com_2025-08-13_webevo-ai.png
TestSiteAug13Png ==
    <<"t", "e", "s", "t", "-", "s", "i", "t", "e", "-", "c", "o", "m", "_",
      "2", "0", "2", "5", "-", "0", "8", "-", "1", "3", "_",
      "w", "e", "b", "e", "v", "o", "-", "a", "i", ".", "p", "n", "g">>

\* C7: in watch mode, when a path holds a valid record for test-site.com of
\* 2025-08-13 that is not rewritten, and neither the template nor the engine
\* raised in a job for it, then once the handler has returned from any number
\* (>= 1) of creation and modification events for the path: one job was
\* started for it, one screenshot was taken for it, the only file name
\* computed for it is test-site-com_2025-08-13_webevo-ai.png, a file of that
\* name was written, and the path is in processed_files.
C7_EndToEnd ==
    \A p \in JsonPaths :
        ( /\ mode = "watch"
          /\ pc = "idle"
          /\ nWrites = 0
          /\ p \notin faulted
          /\ files[p].json
          /\ IsValidRecord(files[p].obj)
          /\ started[p] + skipped[p] >= 1 )
        => /\ started[p] = 1
           /\ renders[p] = 1
           /\ {n.filename : n \in {m \in named : m.path = p}} = {TestSiteAug13Png}
           /\ \E f \in disk : f.name = TestSiteAug13Png
           /\ Cardinality({f \in disk : f.name \in {n.filename : n \in {m \in named : m.path = p}}}) = 1
           /\ p \in processed_files

\* the base record at a.json: one job rendered it, two more events were dropped
C7_Witness ==
    /\ mode = "watch"
    /\ pc = "idle"
    /\ nWrites = 0
    /\ faulted = {}
    /\ files[PathA] = Holds(BaseRecord)
    /\ started[PathA] = 1
    /\ renders[PathA] = 1
    /\ skipped[PathA] = 2
    /\ PathA \in processed_files

\* C8 (as claimed): every image written lies in output_dir, and so does the
\* path generate_report returns.
C8_WrittenInOutputDir ==
    /\ \A f \in disk : f.dir = output_dir
    /\ (pc = "report_return" /\ Truthy(job.result)) =>
          ScreenshotFile(job.result.v).dir = output_dir

\* the ten characters before the brand suffix of a file name
DatePart(filename) ==
    SubSeq(filename, Len(filename) - Len(BrandSuffix) - 9, Len(filename) - Len(BrandSuffix))

\* what precedes the '_' before the date of a file name
DomainPart(filename) == SubSeq(filename, 1, Len(filename) - Len(BrandSuffix) - 11)

EndsWithBrand(filename) ==
    /\ Len(filename) >= Len(BrandSuffix) + 11
    /\ SubSeq(filename, Len(filename) - Len(BrandSuffix) + 1, Len(filename)) = BrandSuffix
    /\ filename[Len(filename) - Len(BrandSuffix) - 10] = "_"

ParsedDate(n) == DateutilParse(n.data["generatedAt"])

\* C9: every file name computed from a record whose generatedAt parses is
\* <the model's domain with each '.' replaced by '-'>_<YYYY-MM-DD of
\* generatedAt>_webevo-ai.png, and any two jobs with the same domain and the
\* same date computed the same name, whatever else their records hold and
\* whatever their paths.  (named changes only in the step that computes a
\* name and leads to pc = "launch", so it is examined there.)
C9_NamingDeterminism ==
    pc = "launch" =>
        /\ \A n \in named :
              ParsedDate(n).ok =>
                  /\ EndsWithBrand(n.filename)
                  /\ DomainPart(n.filename) = Replace(n.data["domain"], <<".">>, <<"-">>)
                  /\ DateutilParse(JStr(DatePart(n.filename))) = ParsedDate(n)
        /\ \A a, b \in named :
              ( /\ a.data["domain"] = b.data["domain"]
                /\ ParsedDate(a).ok
                /\ ParsedDate(a) = ParsedDate(b) )
              => a.filename = b.filename

\* two jobs for different paths, with records that differ in url, time of day,
\* score and rating, computed the same name
C9_Witness ==
    \E a, b \in named :
        /\ a.path # b.path
        /\ a.data["url"] # b.data["url"]
        /\ a.data["generatedAt"] # b.data["generatedAt"]
        /\ a.data["overallScore"] # b.data["overallScore"]
        /\ a.filename = b.filename

\* the running job parsed a record whose generatedAt dateutil cannot parse
JobDateUnparsable ==
    /\ HasStep("parse_json_data", {"ok"})
    /\ ~ DateutilParse(job.raw.obj["generatedAt"]).ok

\* C10: for a job whose generatedAt is present and does not parse (a string
\* without a date, the empty string, a number, null): the date in the file
\* name is the day read off the clock, generate_html does not raise because
\* of it, and when the job fails then the url or the score made
\* generate_html raise, or the template or the engine raised.
C10_DateNeverFails ==
    JobDateUnparsable =>
        /\ job.output_filename # <<>> =>
              /\ job.clock \in 1..MaxDay
              /\ EndsWithBrand(job.output_filename)
              /\ DateutilParse(JStr(DatePart(job.output_filename))) = ClockDate(job.clock)
        /\ HasStep("generate_html", {"raise"}) =>
              job.raw.obj["url"].t # "str" \/ job.raw.obj["overallScore"].t # "int"
        /\ HasStep("generate_html", {"ok"}) => pc # "html" /\ pc # "parse"
        /\ (pc \in {"report_return", "exit"} /\ ~ Truthy(job.result)) =>
              \E i \in 1..Len(trace) :
                  /\ trace[i].op \in EngineOps \cup {"generate_html"}
                  /\ trace[i].out \in {"raise", "render_raise"}

\* a job whose generatedAt is the number 5 ended with a file named for the
\* second day of the run
C10_Witness ==
    /\ pc = "report_return"
    /\ JobDateUnparsable
    /\ job.raw.obj["generatedAt"] = GenNumber
    /\ job.clock = 2
    /\ Truthy(job.result)
    /\ ScreenshotFile(job.output_filename) \in disk


\* the host of a url with its leading 'www.', and only that, removed
HostSansLeadingWww(url) ==
    LET host == Netloc(url)
    IN  IF StartsAt(host, 1, Www) THEN SubSeq(host, Len(Www) + 1, Len(host)) ELSE host

\* C11 (as claimed): the domain generate_html stores is the url's host
\* without scheme, path or trailing slash and with only a leading 'www.'
\* removed ('www.' elsewhere in the host is kept), and the domain part of the
\* file name generate_report computes is that domain with each '.' replaced
\* by '-'; https://www.example.com/ gives example.com and example-com.
C11_DomainExtraction ==
    /\ HasStep("generate_html", {"ok"}) =>
          /\ job.data["domain"] = HostSansLeadingWww(job.data["url"].v)
          /\ job.data["url"] = UrlWwwExample => job.data["domain"] = ExampleCom
    /\ pc = "launch" =>
          \A n \in named :
              ParsedDate(n).ok =>
                  DomainPart(n.filename) =
                      Replace(HostSansLeadingWww(n.data["url"].v), <<".">>, <<"-">>)

\* the engine calls of session creation, navigation and capture
FaultOps == {"launch", "new_page", "set_content", "screenshot"}

\* one of them raised in the running job
EngineFaulted == HasStep("launch", {"raise"}) \/ HasStep("new_page", {"raise"})
                    \/ HasStep("set_content", {"raise"}) \/ HasStep("screenshot", {"raise"})

\* C12: when p.chromium.launch, browser.new_page, page.set_content or
\* page.screenshot raises, that call is the last step of the job:
\* generate_report returns None (main then exits with 1), and no step from
\* then on adds to processed_files, so the path of the job is not in it.
C12_EngineFaultFatal ==
    /\ [](\A i \in 1..Len(trace) :
             (trace[i].op \in FaultOps /\ trace[i].out = "raise") =>
                 /\ i = Len(trace)
                 /\ pc \in {"report_return", "exit"}
                 /\ job.result = JNull
                 /\ job.path \notin processed_files
                 /\ pc = "exit" => exit_code = JInt(1))
    /\ [][EngineFaulted => processed_files' = processed_files]_vars

\* in watch mode page.set_content raised and generate_report has returned
C12_Witness ==
    /\ mode = "watch"
    /\ pc = "report_return"
    /\ HasStep("launch", {"ok"})
    /\ HasStep("set_content", {"raise"})
    /\ job.result = JNull
    /\ job.path \notin processed_files

\* generate_report has returned None to its caller
JobFailed == pc \in {"report_return", "exit"} /\ job.result = JNull

\* C13 (as claimed): a job that ended failed, at whatever step, wrote no
\* image: page.screenshot did not succeed in it.
C13_FailedJobNoArtifact ==
    JobFailed => ~ HasStep("screenshot", {"ok"})

\* an event the handlers pass on to _process_file
Qualifies(ev) == ~ ev.is_directory /\ Lower(Suffix(ev.src_path)) = DotJson

\* C14: in watch mode no failure of a job ends the watcher.  Main does not
\* exit; when generate_report has returned, with a result or with None, the
\* handler returns: the next step leaves the watcher idle, and after a None
\* processed_files is as before; and whenever the watcher is idle (and
\* fewer than MaxEvents events were delivered) every creation or
\* modification event of a .json file can be delivered, and for a path not
\* in processed_files it starts a job for that path, whatever failed before.
C14_FailureIsolation ==
    /\ []((mode = "watch" /\ ~ stopped) => (pc # "exit" /\ exit_code = JNull))
    /\ []((mode = "watch" /\ pc = "report_return") => ENABLED WatchReturn)
    /\ [][(mode = "watch" /\ pc = "report_return") =>
             /\ pc' = "idle"
             /\ job' = NoJob
             /\ ~ Truthy(job.result) => processed_files' = processed_files]_vars
    /\ []((mode = "watch" /\ pc = "idle" /\ ~ stopped /\ nEvents < MaxEvents) =>
             \A ev \in Events :
                 Qualifies(ev) => (ENABLED on_created(ev) /\ ENABLED on_modified(ev)))
    /\ [][\A ev \in Events :
             ( /\ on_created(ev) \/ on_modified(ev)
               /\ Qualifies(ev)
               /\ ev.src_path \notin processed_files )
             => /\ pc' = "debounce"
                /\ job'.path = ev.src_path
                /\ started'[ev.src_path] = started[ev.src_path] + 1]_vars

\* a first job for a.json failed with an engine or template fault, a later
\* event started a second job for it, and that job rendered it
C14_Witness ==
    /\ mode = "watch"
    /\ pc = "idle"
    /\ PathA \in faulted
    /\ started[PathA] = 2
    /\ renders[PathA] >= 1
    /\ PathA \in processed_files

\* C15: processed_files holds the paths a job of which ended with a result,
\* and only those.  No path ever leaves it; a path enters it only in the
\* return of a job for that path whose screenshot was taken and whose
\* generate_report returned the file name; when a job returns, its path is
\* in processed_files afterwards exactly when it returned a result (never
\* after a None); and every path in the set has had a screenshot taken.
C15_SeenSet ==
    /\ [](\A p \in processed_files : started[p] >= 1 /\ renders[p] >= 1)
    /\ [][processed_files \subseteq processed_files']_vars
    /\ [][\A p \in processed_files' \ processed_files :
             /\ pc = "report_return"
             /\ job.path = p
             /\ Truthy(job.result)
             /\ HasStep("screenshot", {"ok"})
             /\ ScreenshotFile(job.result.v) \in disk]_vars
    /\ [][(mode = "watch" /\ pc = "report_return") =>
             (Truthy(job.result) <=> job.path \in processed_files')]_vars

\* one path was rendered and is in the set, the job for the other failed
\* after its screenshot was taken and its path is not in the set
C15_Witness ==
    /\ mode = "watch"
    /\ pc = "idle"
    /\ processed_files = {PathA}
    /\ started[PathB] >= 1
    /\ renders[PathB] >= 1

\* where a job stands once generate_html has returned
AfterHtml == {"name", "launch", "new_page", "set_content", "primary", "secondary",
              "fixed_delay", "settle", "screenshot", "close"}

\* the index of the first step op of the running job, 0 if there is none
FirstStep(op) ==
    IF \E i \in 1..Len(trace) : trace[i].op = op
    THEN CHOOSE i \in 1..Len(trace) :
             trace[i].op = op /\ \A k \in 1..(i - 1) : trace[k].op # op
    ELSE 0

\* C16: in every job parse_json_data, then generate_html, have returned
\* before the first engine call: when the job stands past generate_html, a
\* browser is open, or any engine call has been made, then the record read
\* has the four required fields, the data carries domain and overallGrade,
\* parse_json_data and generate_html each ran once and returned, in that
\* order, and every engine call comes after them; and a job in which either
\* of the two raised has made no engine call and has no browser.
C16_BuildBeforeRender ==
    /\ ( \/ pc \in AfterHtml
         \/ sessions # {}
         \/ \E i \in 1..Len(trace) : trace[i].op \in EngineOps )
       => /\ job.raw.json
          /\ required_fields \subseteq DOMAIN job.raw.obj
          /\ {"domain", "overallGrade"} \subseteq DOMAIN job.data
          /\ Count("parse_json_data") = 1
          /\ Count("generate_html") = 1
          /\ HasStep("parse_json_data", {"ok"})
          /\ HasStep("generate_html", {"ok"})
          /\ FirstStep("parse_json_data") < FirstStep("generate_html")
          /\ \A i \in 1..Len(trace) :
                 trace[i].op \in EngineOps => i > FirstStep("generate_html")
    /\ ( \/ HasStep("parse_json_data", {"raise"})
         \/ HasStep("generate_html", {"raise", "render_raise"}) )
       => /\ \A i \in 1..Len(trace) : trace[i].op \notin EngineOps
          /\ sessions = {}
          /\ job.browser = NoBrowser
          /\ job.output_filename = <<>>

\* the page of a parsed and rendered record is being captured
C16_Witness ==
    /\ pc = "screenshot"
    /\ sessions = {job.browser}
    /\ HasStep("parse_json_data", {"ok"})
    /\ HasStep("generate_html", {"ok"})
    /\ HasStep("set_content", {"ok"})

\* C17: in watch mode every job first passed the look-up in processed_files
\* (its path is not in the set while it runs), then waits DebounceDelay = 1
\* second, and only then reads its file: while the job waits nothing has
\* been read or built, the wait is the first step of every job and happens
\* once, parse_json_data is the second step, and every engine call comes
\* later.
C17_Debounce ==
    mode = "watch" =>
        /\ pc \notin {"idle", "exit"} => job.path \in JsonPaths \ processed_files
        /\ pc = "debounce" =>
              /\ trace = <<>>
              /\ job.raw = NoJob.raw
              /\ job.data = NoData
        /\ pc \notin {"idle", "exit", "debounce"} =>
              /\ Len(trace) >= 1
              /\ trace[1] = Step("debounce", "ok", DebounceDelay)
        /\ \A i \in 1..Len(trace) :
              /\ trace[i].op = "debounce" => i = 1
              /\ trace[i].op = "parse_json_data" => i = 2
              /\ trace[i].op \in EngineOps \cup {"generate_html"} => i > 2

\* a job waited, then read its file, and went on to render it
C17_Witness ==
    /\ mode = "watch"
    /\ pc = "report_return"
    /\ trace[1] = Step("debounce", "ok", DebounceDelay)
    /\ trace[2] = Step("parse_json_data", "ok", 0)
    /\ HasStep("screenshot", {"ok"})
    /\ Truthy(job.result)

InSession == {"new_page", "set_content", "primary", "secondary", "fixed_delay",
              "settle", "screenshot", "close"}

\* C19: every open browser is the one the running job launched (it is the
\* job's local browser, made by the launch of this job for this path), and
\* the job is between its launch and its close; at most one browser is
\* open; a job past its launch works in exactly that one browser; and
\* before the launch and once generate_report has returned no browser is
\* open, so a job never finds the browser of another job.
C19_SessionIsolation ==
    /\ \A b \in sessions :
          /\ b = job.browser
          /\ b.path = job.path
          /\ b.run = started[job.path]
          /\ pc \in InSession
    /\ Cardinality(sessions) <= 1
    /\ pc \in InSession => (job.browser # NoBrowser /\ sessions = {job.browser})
    /\ pc \notin InSession => sessions = {}
    /\ pc \in {"idle", "debounce", "parse", "html", "name", "launch"} =>
          job.browser = NoBrowser

\* the second job for a path captures in the browser it launched itself
C19_Witness ==
    /\ mode = "watch"
    /\ pc = "screenshot"
    /\ started[job.path] = 2
    /\ renders[job.path] = 1
    /\ sessions = {[path |-> job.path, run |-> 2]}

\* the job in flight can take its next step
JobCanStep ==
    /\ pc = "debounce" => ENABLED Debounce
    /\ pc = "parse" => ENABLED Parse
    /\ pc = "html" => ENABLED Html
    /\ pc = "name" => ENABLED Name
    /\ pc = "launch" => ENABLED Launch
    /\ pc = "new_page" => ENABLED NewPage
    /\ pc = "set_content" => ENABLED SetContent
    /\ pc = "primary" => ENABLED PollPrimary
    /\ pc = "secondary" => ENABLED PollSecondary
    /\ pc = "fixed_delay" => ENABLED SleepFixed
    /\ pc = "settle" => ENABLED SleepSettle
    /\ pc = "screenshot" => ENABLED Screenshot
    /\ pc = "close" => ENABLED Close
    /\ pc = "report_return" => ENABLED WatchReturn

\* C20: once observer.stop() has been called no event is handled any more
\* (no job is started, none is dropped as processed); a job in flight is not
\* aborted: it can take its next step, and every step taken while it is in
\* flight is a step of that job (the watcher does not exit under it);
\* watch_directory returns only from the idle watcher after the stop, with
\* no job in flight and no browser open, and the step that stops the
\* observer changes nothing of the job.
C20_Cancellation ==
    /\ [][stopped =>
             /\ started' = started
             /\ skipped' = skipped
             /\ nEvents' = nEvents
             /\ stopped']_vars
    /\ []((stopped /\ pc \notin {"idle", "exit"}) => JobCanStep)
    /\ [][(stopped /\ pc \notin {"idle", "exit"}) =>
             /\ pc' # "exit"
             /\ pc' = "idle" => pc = "report_return"
             /\ pc' # "idle" => job'.path = job.path]_vars
    /\ [][stopped' # stopped =>
             /\ pc' = pc
             /\ job' = job
             /\ trace' = trace
             /\ sessions' = sessions
             /\ processed_files' = processed_files]_vars
    /\ [][pc' = "exit" =>
             /\ stopped
             /\ pc = "idle"
             /\ job = NoJob
             /\ sessions = {}]_vars
    /\ [](pc = "exit" =>
             /\ stopped
             /\ job = NoJob
             /\ sessions = {}
             /\ exit_code = JInt(0))

\* the observer has been stopped while the only job was in flight, and the
\* job went on to capture and to return its result
C20_Witness ==
    /\ stopped
    /\ pc = "report_return"
    /\ nEvents = 1
    /\ HasStep("screenshot", {"ok"})
    /\ Truthy(job.result)

\* generate_html returned: the job holds the data the template was given
HtmlDone == HasStep("generate_html", {"ok"}) /\ pc # "html"

\* C21: after generate_html returned, the data has a formattedDate: the long
\* form of generatedAt when it parses, generatedAt itself when it does not
\* (the empty string included).
C21_FormattedDate ==
    HtmlDone =>
        /\ "formattedDate" \in DOMAIN job.data
        /\ LET gen_date == DateutilParse(job.data["generatedAt"])
           IN  job.data["formattedDate"] =
                  (IF gen_date.ok THEN JStr(StrftimeLong(gen_date))
                                  ELSE job.data["generatedAt"])

\* C22: a job is started only by the handler of an event on a path that is
\* not a directory and whose suffix, lowered, is .json, and it is the job of
\* that path; the handler of such an event starts the job or drops the event
\* as processed; the handler of a directory event or of an event on a path
\* with another suffix changes nothing of the jobs, the processed files, the
\* browsers or the written files.
C22_EventFiltering ==
    /\ [][started' # started =>
             \E ev \in Events :
                 /\ Qualifies(ev)
                 /\ HandleEvent(ev)
                 /\ pc' = "debounce"
                 /\ job' = [NoJob EXCEPT !.path = ev.src_path]
                 /\ started' = [started EXCEPT ![ev.src_path] = @ + 1]]_vars
    /\ [][\A ev \in Events :
             (on_created(ev) \/ on_modified(ev)) =>
                 IF Qualifies(ev)
                 THEN IF ev.src_path \in processed_files
                      THEN /\ skipped'[ev.src_path] = skipped[ev.src_path] + 1
                           /\ started' = started
                           /\ pc' = "idle"
                      ELSE /\ started'[ev.src_path] = started[ev.src_path] + 1
                           /\ job'.path = ev.src_path
                           /\ pc' = "debounce"
                 ELSE UNCHANGED <<processed_files, pc, job, trace, started, skipped,
                                  named, renders, faulted, sessions, disk, files,
                                  exit_code>>]_vars

\* two events were delivered: the first, on a directory or on a path with
\* another suffix, started nothing; the second, on b.JSON, started its job
C22_Witness ==
    /\ mode = "watch"
    /\ nEvents = 2
    /\ pc = "debounce"
    /\ job.path = PathB
    /\ started = [p \in JsonPaths |-> IF p = PathB THEN 1 ELSE 0]
    /\ skipped = [p \in JsonPaths |-> 0]

\* generate_report has returned
ReportReturned == pc = "report_return" \/ (mode = "single" /\ pc = "exit")

\* parse_json_data, generate_html and every call of generate_png returned
AllSucceeded ==
    /\ HasStep("parse_json_data", {"ok"})
    /\ HasStep("generate_html", {"ok"})
    /\ \A op \in {"launch", "new_page", "set_content", "screenshot", "close"} :
          HasStep(op, {"ok"})

C24_EndedJobRecorded ==
    /\ [][(mode = "watch" /\ pc = "report_return" /\ pc' = "idle") =>
             processed_files' = IF Truthy(job.result)
                                THEN processed_files \cup {job.path}
                                ELSE processed_files]_vars
    /\ [][\A ev \in Events :
             (Qualifies(ev) /\ (on_created(ev) \/ on_modified(ev))) =>
                 IF ev.src_path \in processed_files
                 THEN UNCHANGED <<pc, job, trace, started, renders, processed_files>>
                 ELSE /\ pc' = "debounce"
                      /\ job'.path = ev.src_path
                      /\ started'[ev.src_path] = started[ev.src_path] + 1]_vars
    /\ [](\A p \in JsonPaths :
             (mode = "watch" /\ started[p] >= 1 /\ job.path # p /\ p \notin processed_files)
                 => renders[p] < started[p] \/ p \in faulted)

\* C24 (as claimed): a path whose job has ended, with a result or failed,
\* is in processed_files, and no second job is started for it.
C24_AsClaimed ==
    \A p \in JsonPaths :
        /\ (started[p] >= 1 /\ job.path # p) => p \in processed_files
        /\ started[p] <= 1

\* the job for a.json failed, the job for b.JSON ended with a result and
\* b.JSON is recorded, a.json is not, and a third event has started a
\* second job for a.json
C24_Witness ==
    /\ pc = "debounce"
    /\ job.path = PathA
    /\ started = [p \in JsonPaths |-> IF p = PathA THEN 2 ELSE 1]
    /\ processed_files = {PathB}

\* the images on disk d whose name carries the domain and the date of the
\* running job's record (the day read off the clock when generatedAt does
\* not parse)
SameDomainDate(d) ==
    {g \in d :
        /\ EndsWithBrand(g.name)
        /\ DomainPart(g.name) = Replace(job.data["domain"], <<".">>, <<"-">>)
        /\ DatePart(g.name) = DateStr(job.data, ClockDate(job.clock))}

\* the screenshots taken so far, over all paths
RECURSIVE SumOver(_, _)
SumOver(f, S) ==
    IF S = {} THEN 0
    ELSE LET p == CHOOSE q \in S : TRUE
         IN  f[p] + SumOver(f, S \ {p})

\* C25: a capture leaves exactly one image for the domain and the date of
\* its record; when an earlier job has already written an image for the same
\* domain and date, the capture writes to that file and the set of images is
\* as before (no second version); so there are never more images than
\* captures, and there can be fewer.
C25_Overwrite ==
    /\ [][(pc = "screenshot" /\ pc' = "close") =>
             /\ Cardinality(SameDomainDate(disk')) = 1
             /\ SameDomainDate(disk) # {} => disk' = disk
             /\ Cardinality(disk') <= Cardinality(disk) + 1
             /\ disk \subseteq disk'
             /\ renders'[job.path] = renders[job.path] + 1]_vars
    /\ [](Cardinality(disk) <= SumOver(renders, JsonPaths))

\* the jobs of both paths ended with a result, each took one screenshot,
\* and there is one image
C25_Witness ==
    /\ processed_files = {PathA, PathB}
    /\ renders = [p \in JsonPaths |-> 1]
    /\ Cardinality(disk) = 1

\* the step that ends the readiness wait: a poll that found its region, or
\* the fixed delay
EndsReadiness(s) ==
    \/ s.op \in {"wait_primary", "wait_secondary"} /\ s.out = "ok"
    \/ s.op = "fixed_delay"

\* C26: in every job the settle delay of 2 seconds is taken at most once,
\* right after the step that ended the readiness wait (the primary poll that
\* found its region, the secondary poll that found its region, or the fixed
\* delay), and the screenshot is attempted only right after the settle delay.
C26_SettleDelay ==
    /\ Count("settle") <= 1
    /\ \A i \in 1..Len(trace) :
          /\ trace[i].op = "settle" =>
                /\ trace[i].arg = SettleDelay
                /\ trace[i].arg = 2
                /\ i > 1
                /\ EndsReadiness(trace[i - 1])
          /\ trace[i].op = "screenshot" =>
                /\ i > 1
                /\ trace[i - 1].op = "settle"
          /\ (EndsReadiness(trace[i]) /\ i < Len(trace)) => trace[i + 1].op = "settle"
    /\ pc = "settle" => Count("settle") = 0 /\ EndsReadiness(trace[Len(trace)])
    /\ pc \in {"screenshot", "close"} => Count("settle") = 1

\* the primary poll timed out, the secondary poll found its region, the
\* settle delay was taken and the screenshot made
C26_Witness ==
    /\ HasStep("wait_primary", {"timeout"})
    /\ HasStep("wait_secondary", {"ok"})
    /\ HasStep("settle", {"ok"})
    /\ HasStep("screenshot", {"ok"})
    /\ pc = "close"

\* C27: after generate_html returned, moduleGrade has an entry for exactly
\* the modules of the record that have a summary with a score; each entry is
\* the table's grade of that module's score, whatever the overall score and
\* the scores of the other modules are; overallGrade is the table's grade of
\* overallScore.
C27_ModuleGrades ==
    HtmlDone =>
        LET modules == GetModules(job.raw.obj)
            scored == {k \in DOMAIN modules :
                          /\ "summary" \in DOMAIN modules[k]
                          /\ "score" \in DOMAIN modules[k]["summary"]}
        IN  /\ DOMAIN job.data["moduleGrade"] = scored
            /\ \A k \in scored :
                  job.data["moduleGrade"][k] = GradeTable(modules[k]["summary"]["score"].v)
            /\ job.data["overallGrade"] = GradeTable(job.raw.obj["overallScore"].v)

\* a record with overall score 78 (C+), one module of score 97 (A+), and
\* one module without a score has been graded
C27_Witness ==
    /\ HtmlDone
    /\ job.data["overallGrade"] = "C+"
    /\ DOMAIN job.raw.obj["modules"] = ModuleKeys
    /\ DOMAIN job.data["moduleGrade"] = {"security"}
    /\ job.data["moduleGrade"]["security"] = "A+"

\* C28: a one-shot run is one job for the given path: no handler of the
\* watcher runs (no event is delivered, nothing is started or dropped by
\* _process_file, the observer is never stopped), the job does not wait the
\* debounce delay, processed_files is neither read into a decision nor
\* written (it stays empty while the job runs whatever it holds), the job is
\* for the given path from the first step to the exit and reads its file
\* once, and main exits with status 1 exactly when generate_report returned
\* None, with status 0 otherwise.
C28_OneShot ==
    mode = "single" =>
        /\ nEvents = 0
        /\ started = [p \in JsonPaths |-> 0]
        /\ skipped = [p \in JsonPaths |-> 0]
        /\ ~ stopped
        /\ processed_files = {}
        /\ pc \notin {"idle", "debounce"}
        /\ ~ HasStep("debounce", AnyOut)
        /\ job.path = PathA
        /\ Count("parse_json_data") <= 1
        /\ Count("screenshot") <= 1
        /\ pc # "exit" => exit_code = JNull
        /\ pc = "exit" =>
              /\ exit_code \in {JInt(0), JInt(1)}
              /\ exit_code = JInt(1) <=> job.result = JNull
              /\ exit_code = JInt(0) <=> (AllSucceeded /\ job.result = JStr(job.output_filename))

\* a one-shot run has exited with status 1 after its screenshot raised
C28_Witness ==
    /\ mode = "single"
    /\ pc = "exit"
    /\ exit_code = JInt(1)
    /\ HasStep("screenshot", {"raise"})

\* the seconds a job has waited in its sleeps and polls, at most
RECURSIVE Waited(_)
Waited(t) == IF t = <<>> THEN 0 ELSE t[Len(t)].arg + Waited(SubSeq(t, 1, Len(t) - 1))

\* the steps of a job: the debounce, parsing, generate_html, and the calls
\* and waits of generate_png
JobOps == {"debounce", "parse_json_data", "generate_html"} \cup EngineOps

\* the longest job takes each step once
MaxSteps == Cardinality(JobOps)

\* C29: every job started in watch mode ends: the handler gets back to the
\* idle watcher, and it does so only from the return of generate_report,
\* with the file name or with None; no step of a job is taken
\* twice (no loop, no retry), a job has at most MaxSteps steps, and the
\* waits of a job add up to at most 1 + 15 + 10 + 5 + 2 seconds.
C29_JobTerminates ==
    /\ (pc \notin {"idle", "exit"}) ~> (pc = "idle" /\ job = NoJob)
    /\ [][(pc # "idle" /\ pc' = "idle") =>
             /\ pc = "report_return"
             /\ job.result = JNull \/ job.result = JStr(job.output_filename)]_vars
    /\ [](/\ Len(trace) <= MaxSteps
          /\ \A i, k \in 1..Len(trace) : trace[i].op = trace[k].op => i = k
          /\ Waited(trace) <= DebounceDelay + PrimaryTimeout + SecondaryTimeout
                                + FixedDelay + SettleDelay)

\* a job took every step there is: both polls timed out, the fixed delay
\* and the settle delay were waited, the screenshot was made and the browser
\* closed
C29_Witness ==
    /\ mode = "watch"
    /\ pc = "report_return"
    /\ Len(trace) = MaxSteps
    /\ Waited(trace) = 33
    /\ Truthy(job.result)

\* the seconds a step may have taken of the readiness wait, which runs from
\* the return of page.set_content to the call of page.screenshot
StepTimes(s) ==
    IF s.op \in {"wait_primary", "wait_secondary"} THEN PollTimes(s.out, s.arg)
    ELSE IF s.op \in {"fixed_delay", "settle"} THEN {s.arg}
    ELSE {0}

\* the seconds the readiness wait of the steps t may have taken
RECURSIVE ReadinessWaits(_)
ReadinessWaits(t) ==
    IF t = <<>> THEN {0}
    ELSE {a + b : a \in StepTimes(t[Len(t)]),
                  b \in ReadinessWaits(SubSeq(t, 1, Len(t) - 1))}

\* C30: once the settle delay has been waited, ready for the screenshot, the
\* readiness wait took at least 2 and at most 15 + 10 + 5 + 2 = 32 seconds,
\* however long the polls took; it took 32 only when both polls timed out,
\* and then it took exactly 32; at most 15 + 2 when the primary poll found
\* its region, at most 15 + 10 + 2 when the secondary poll found its region.
C30_BoundedReadinessWait ==
    HasStep("settle", {"ok"}) =>
        /\ \A w \in ReadinessWaits(trace) :
              /\ w >= SettleDelay
              /\ w >= 2
              /\ w <= PrimaryTimeout + SecondaryTimeout + FixedDelay + SettleDelay
              /\ w <= 32
              /\ w = 32 => /\ HasStep("wait_primary", {"timeout"})
                           /\ HasStep("wait_secondary", {"timeout"})
              /\ HasStep("wait_primary", {"ok"}) => w <= 15 + 2
              /\ HasStep("wait_secondary", {"ok"}) => w <= 15 + 10 + 2
        /\ (HasStep("wait_primary", {"timeout"}) /\ HasStep("wait_secondary", {"timeout"}))
              => ReadinessWaits(trace) = {32}
        /\ HasStep("wait_primary", {"ok"}) => 2 \in ReadinessWaits(trace)

\* the job stands before the screenshot 32 seconds after the markup was loaded
C30_Witness ==
    /\ pc = "screenshot"
    /\ ReadinessWaits(trace) = {32}

\* generate_png has been left by a job that had launched a browser
LeftWithBrowser == HasStep("launch", {"ok"}) /\ pc \notin InSession

\* C31 (amended): no job ends with its browser open: once generate_png has
\* been left no browser is open.  browser.close() is called only after a
\* screenshot that succeeded; when new_page, set_content or the screenshot
\* raises, browser.close() is not called, and the browser ends with the
\* sync_playwright block, in the step that raises.
C31_SessionRelease ==
    /\ [](LeftWithBrowser => sessions = {})
    /\ [](HasStep("close", AnyOut) => HasStep("screenshot", {"ok"}))
    /\ []((LeftWithBrowser /\ \E op \in {"new_page", "set_content", "screenshot"} :
                                 HasStep(op, {"raise"}))
             => ~ HasStep("close", AnyOut))
    /\ [][(sessions # {} /\ sessions' = {}) =>
             \/ pc = "close"
             \/ /\ pc \in {"new_page", "set_content", "screenshot"}
                /\ pc' = "report_return"
                /\ job'.result = JNull
                /\ trace'[Len(trace')].out = "raise"]_vars

\* C31 (as claimed): a job that launched a browser and has left generate_png
\* has called browser.close().
C31_AsClaimed ==
    LeftWithBrowser => HasStep("close", AnyOut)

\* the screenshot raised: the job has ended without a call of
\* browser.close(), and no browser is open
C31_Witness ==
    /\ pc = "report_return"
    /\ HasStep("launch", {"ok"})
    /\ HasStep("screenshot", {"raise"})
    /\ ~ HasStep("close", AnyOut)
    /\ sessions = {}

\* the outcomes of a poll in which its region is taken as absent
Absent == {"timeout", "raise"}

\* C32: a poll that raises, whatever it raises, is handled as a poll that
\* timed out: the step of a poll never ends the job, marks no fault and
\* ends no browser; after the primary poll raised the secondary poll comes
\* next, after the secondary poll raised the fixed delay; a job in which a
\* poll raised still waits the settle delay and attempts the screenshot
\* before it ends, and when it fails, some other call has raised.
C32_PollExceptionsAbsorbed ==
    /\ [][(pc = "primary" \/ pc = "secondary") =>
             /\ pc' \in {"secondary", "fixed_delay", "settle"}
             /\ job' = job
             /\ faulted' = faulted
             /\ sessions' = sessions
             /\ trace'[Len(trace')].out \in Absent =>
                   pc' = (IF pc = "primary" THEN "secondary" ELSE "fixed_delay")]_vars
    /\ [](\A i \in 1..Len(trace) :
             (trace[i].op \in {"wait_primary", "wait_secondary"} /\ trace[i].out = "raise") =>
                 /\ i < Len(trace) =>
                       trace[i + 1].op = (IF trace[i].op = "wait_primary"
                                          THEN "wait_secondary" ELSE "fixed_delay")
                 /\ i = Len(trace) =>
                       pc = (IF trace[i].op = "wait_primary"
                             THEN "secondary" ELSE "fixed_delay")
                 /\ pc \in {"report_return", "exit"} =>
                       /\ HasStep("settle", {"ok"})
                       /\ HasStep("screenshot", AnyOut)
                       /\ job.result = JNull =>
                             HasStep("screenshot", {"raise"}) \/ HasStep("close", {"raise"}))

\* both polls raised something that is no timeout, and the job went on to
\* the fixed delay, the screenshot and a result
C32_Witness ==
    /\ pc = "report_return"
    /\ HasStep("wait_primary", {"raise"})
    /\ HasStep("wait_secondary", {"raise"})
    /\ HasStep("fixed_delay", {"ok"})
    /\ Truthy(job.result)

====
